---- MODULE Spec2Model ----
(***************************************************************************)
(* A model of app.py: the background-removal web service.                  *)
(*                                                                         *)
(*   - the pixel pipeline: fallback_mask and apply_mask_and_save           *)
(*   - file names: allowed_file, secure_filename and save_upload           *)
(*   - the request handlers process_local, process_api, index and          *)
(*     call_provider, first one request at a time, then interleaved        *)
(*                                                                         *)
(* Images are arrays of 8-bit pixels, rows and columns numbered from 1.    *)
(* Arithmetic on the background colour is exact: the mean is kept as       *)
(* (sum, count) and distances are compared squared, so the float64         *)
(* rounding of numpy is not part of the model.                             *)
(***************************************************************************)
EXTENDS Integers, Sequences, FiniteSets, TLC

VARIABLES
    \* -- pixel pipeline
    pil,        \* the decoded image handed to the pipeline
    bg_color,   \* fallback_mask's bg_color, as [sum, n]
    mask,       \* the mask array
    out_img,    \* what apply_mask_and_save wrote
    step,       \* position in the pipeline
    \* -- request handlers
    uploads,    \* static/uploads: name -> [content, mtime]
    results,    \* static/results: name -> [content, mtime]
    issued,     \* uuid4 values drawn so far
    resp,       \* the handler's response
    log,        \* side effects of the handler: remote calls, model loads
    stage,      \* how far the handler got before it returned
    \* -- interleaved requests
    reqs,       \* the requests in flight, by request id
    now         \* the clock (utcnow), in hours

imgVars == <<pil, bg_color, mask, out_img, step>>
srvVars == <<uploads, results, issued, resp, log, stage>>
concVars == <<reqs, now>>
vars == <<pil, bg_color, mask, out_img, step,
          uploads, results, issued, resp, log, stage, reqs, now>>

None == "None"

Min(a, b) == IF a < b THEN a ELSE b
Max(a, b) == IF a > b THEN a ELSE b

(***************************************************************************)
(* Images.  An image is [mode, h, w, px]; px[r][c] is a tuple of 3 (RGB)   *)
(* or 4 (RGBA) channel values.                                             *)
(***************************************************************************)

\* PIL Image.convert between RGB and RGBA: RGB -> RGBA adds alpha 255,
\* RGBA -> RGB drops the alpha channel (no premultiplication).
Convert(im, mode) ==
    IF im.mode = mode THEN im
    ELSE IF mode = "RGBA"
    THEN [im EXCEPT !.mode = "RGBA",
             !.px = [r \in 1..im.h |-> [c \in 1..im.w |->
                        Append(im.px[r][c], 255)]]]
    ELSE [im EXCEPT !.mode = "RGB",
             !.px = [r \in 1..im.h |-> [c \in 1..im.w |->
                        SubSeq(im.px[r][c], 1, 3)]]]

\* numpy's resolution of one slice bound on an axis of length n: a negative
\* bound counts from the end, and both are clamped to 0..n.
SliceIndex(i, n) == IF i < 0 THEN Max(i + n, 0) ELSE Min(i, n)

\* The 1-based indices arr[start:stop] selects on an axis of length n.
Slice(start, stop, n) == (SliceIndex(start, n) + 1)..SliceIndex(stop, n)

\* arr[rows, cols].reshape(-1, 3): the pixels of a region, row by row.
RECURSIVE Reshape(_, _, _, _, _)
Reshape(px, r, rhi, clo, chi) ==
    IF r > rhi THEN <<>>
    ELSE [i \in 1..(IF chi >= clo THEN chi - clo + 1 ELSE 0) |-> px[r][clo + i - 1]]
         \o Reshape(px, r + 1, rhi, clo, chi)

Region(px, rows, cols) ==
    IF rows = {} \/ cols = {} THEN <<>>
    ELSE Reshape(px, CHOOSE r \in rows : \A q \in rows : r <= q,
                     CHOOSE r \in rows : \A q \in rows : r >= q,
                     CHOOSE c \in cols : \A q \in cols : c <= q,
                     CHOOSE c \in cols : \A q \in cols : c >= q)

\* The sum of channel k over pixels[lo..hi] (halving keeps the recursion shallow)
RECURSIVE SumChannel(_, _, _, _)
SumChannel(pixels, k, lo, hi) ==
    IF lo > hi THEN 0
    ELSE IF lo = hi THEN pixels[lo][k]
    ELSE LET mid == (lo + hi) \div 2
         IN  SumChannel(pixels, k, lo, mid) + SumChannel(pixels, k, mid + 1, hi)

thresh == 30

MarginFloor == 5

MarginDivisor == 20

\* margin = max(5, min(h, w) // 20)
Margin(h, w) == Max(MarginFloor, Min(h, w) \div MarginDivisor)

\* (mutant) arr[n - margin:], which numpy reads from the end once n < margin
TailSliceFromLength(margin, n) == Slice(n - margin, n, n)

\* arr[-margin:]: the slice from -margin to the end of an axis of length n
TailSlice(margin, n) == Slice(0 - margin, n, n)

\* arr[0:margin]
HeadSlice(margin, n) == Slice(0, margin, n)

\* corners = np.concatenate([...four corner slices...], axis=0)
Corners(arr) ==
    LET margin == Margin(arr.h, arr.w)
    IN  Region(arr.px, HeadSlice(margin, arr.h), HeadSlice(margin, arr.w))
        \o Region(arr.px, HeadSlice(margin, arr.h), TailSlice(margin, arr.w))
        \o Region(arr.px, TailSlice(margin, arr.h), HeadSlice(margin, arr.w))
        \o Region(arr.px, TailSlice(margin, arr.h), TailSlice(margin, arr.w))

\* bg_color = corners.mean(axis=0), kept exact as per-channel sum and count
BgColor(arr) ==
    LET corners == Corners(arr)
    IN  [sum |-> [k \in 1..3 |-> SumChannel(corners, k, 1, Len(corners))], n |-> Len(corners)]

\* (mutant) diff >= thresh
ForegroundAtThreshold(p, bg) ==
    LET d(k) == bg.n * p[k] - bg.sum[k]
    IN  d(1) * d(1) + d(2) * d(2) + d(3) * d(3) >= thresh * thresh * bg.n * bg.n

\* diff > thresh for one pixel p, with diff = ||p - sum/n||: compared squared
\* and scaled by n^2 so that the test stays in the integers.
Foreground(p, bg) ==
    LET d(k) == bg.n * p[k] - bg.sum[k]
    IN  d(1) * d(1) + d(2) * d(2) + d(3) * d(3) > thresh * thresh * bg.n * bg.n

\* mask = (diff > thresh).astype(np.uint8) * 255
MaskOf(arr, bg) ==
    [r \in 1..arr.h |-> [c \in 1..arr.w |->
        ((IF Foreground(arr.px[r][c], bg) THEN 1 ELSE 0) * 255) % 256]]

\* fallback_mask(pil_image): the mask as [h, w, v]
fallback_mask(im) ==
    LET arr == Convert(im, "RGB")
        bg == BgColor(arr)
    IN  [h |-> arr.h, w |-> arr.w, v |-> MaskOf(arr, bg)]

(***************************************************************************)
(* apply_mask_and_save.  A mask array is [shape, v]: shape is the tuple of *)
(* its dimensions and v its values, nested once per dimension.  An         *)
(* operation that can raise returns [ok |-> FALSE, error |-> ...].         *)
(***************************************************************************)

Raise(e) == [ok |-> FALSE, error |-> e]

Return(v) == [ok |-> TRUE, value |-> v]

\* ndarray.astype('uint8') on integer values: wraps modulo 2^8
AsUint8(x) == x % 256

\* Image.fromarray(mask_arr.astype('uint8'), mode='L'): at most two
\* dimensions for mode L; size = (1 if ndim == 1 else shape[1], shape[0]).
FromArrayL(arr) ==
    LET ndim == Len(arr.shape)
    IN  IF ndim > 2 THEN Raise("ValueError: Too many dimensions")
        ELSE IF ndim = 0 THEN Raise("IndexError: tuple index out of range")
        ELSE IF ndim = 1
        THEN Return([mode |-> "L", h |-> arr.shape[1], w |-> 1,
                     px |-> [r \in 1..arr.shape[1] |-> [c \in 1..1 |->
                                AsUint8(arr.v[r])]]])
        ELSE Return([mode |-> "L", h |-> arr.shape[1], w |-> arr.shape[2],
                     px |-> [r \in 1..arr.shape[1] |-> [c \in 1..arr.shape[2] |->
                                AsUint8(arr.v[r][c])]]])

\* mask_img.filter(ImageFilter.GaussianBlur(radius=1)): a smoothing that
\* keeps the size and the 8-bit range.  The kernel is the separable
\* (1, 2, 1) / 4 approximation with the edge pixels repeated; PIL's own
\* coefficients differ, its size and range do not.
GaussianBlur(im) ==
    LET at(r, c) == im.px[Max(1, Min(im.h, r))][Max(1, Min(im.w, c))]
        row(r, c) == at(r, c - 1) + 2 * at(r, c) + at(r, c + 1)
    IN  [im EXCEPT !.px = [r \in 1..im.h |-> [c \in 1..im.w |->
            (row(r - 1, c) + 2 * row(r, c) + row(r + 1, c) + 8) \div 16]]]

\* (mutant) the alpha written and the colour channels scaled by it
PutAlphaPremultiplied(im, alpha) ==
    IF alpha.h # im.h \/ alpha.w # im.w
    THEN Raise("ValueError: images do not match")
    ELSE Return([im EXCEPT !.px = [r \in 1..im.h |-> [c \in 1..im.w |->
                    [k \in 1..4 |-> IF k = 4 THEN alpha.px[r][c]
                                    ELSE (im.px[r][c][k] * alpha.px[r][c]) \div 255]]]])

\* (mutant) a band of another size fitted to the image, its last row and
\* column repeated
PutAlphaFitted(im, alpha) ==
    Return([im EXCEPT !.px = [r \in 1..im.h |-> [c \in 1..im.w |->
        [im.px[r][c] EXCEPT ![4] = alpha.px[Min(r, alpha.h)][Min(c, alpha.w)]]]]])

\* pil.putalpha(mask_img): the band must have the image's size
\* (ImagingPutBand raises "images do not match"); only band 4 is written.
PutAlpha(im, alpha) ==
    IF alpha.h # im.h \/ alpha.w # im.w
    THEN Raise("ValueError: images do not match")
    ELSE Return([im EXCEPT !.px = [r \in 1..im.h |-> [c \in 1..im.w |->
                    [im.px[r][c] EXCEPT ![4] = alpha.px[r][c]]]]])

\* apply_mask_and_save(pil_image, mask_arr, out_path): the PNG written to
\* out_path, or the exception raised before anything is written.
apply_mask_and_save(pil_image, mask_arr) ==
    LET rgba == Convert(pil_image, "RGBA")
        mask_img == FromArrayL(mask_arr)
    IN  IF ~mask_img.ok THEN mask_img
        ELSE LET composed == PutAlpha(rgba, GaussianBlur(mask_img.value))
             IN  IF ~composed.ok THEN composed
                 ELSE Return([format |-> "PNG", image |-> composed.value])

\* The mask array fallback_mask returns, as an ndarray of shape (h, w)
FallbackArray(im) ==
    LET m == fallback_mask(im) IN [shape |-> <<m.h, m.w>>, v |-> m.v]

(***************************************************************************)
(* The pixel pipeline on its own: Init draws an image, FallbackMask and    *)
(* ApplyMask run the two functions on it.                                  *)
(***************************************************************************)

MaxDim == 6

Black == <<0, 0, 0>>
White == <<255, 255, 255>>
Palette == {Black, <<30, 0, 0>>, <<36, 48, 0>>, White}

\* Shapes beyond MaxDim: corner regions that do not overlap, and a margin
\* above its floor of 5.
MidShape == <<10, 11>>
BigShape == <<120, 121>>

\* An image of one colour with one pixel of another; alpha (when the mode
\* has one) is 0 on that pixel and 128 elsewhere.
MkImage(mode, h, w, base, patch, r0, c0) ==
    [mode |-> mode, h |-> h, w |-> w,
     px |-> [r \in 1..h |-> [c \in 1..w |->
        LET rgb == IF r = r0 /\ c = c0 THEN patch ELSE base
        IN  IF mode = "RGB" THEN rgb
            ELSE Append(rgb, IF r = r0 /\ c = c0 THEN 0 ELSE 128)]]]

\* The images drawn: every size up to MaxDim with the differing pixel
\* anywhere, and the two larger shapes with it in or out of the corners.
Images ==
    UNION { { MkImage("RGB", h, w, b, p, r0, c0) :
                b \in {Black, White}, p \in Palette, r0 \in 1..h, c0 \in 1..w }
            \cup { MkImage("RGBA", h, w, Black, White, r0, c0) :
                r0 \in 1..h, c0 \in 1..w } :
            h \in 1..MaxDim, w \in 1..MaxDim }
    \cup { MkImage(m, MidShape[1], MidShape[2], b, p, r0, c0) :
            m \in {"RGB", "RGBA"}, b \in {Black, White}, p \in Palette,
            r0 \in {1, 6}, c0 \in {6, 11} }
    \cup { MkImage("RGB", BigShape[1], BigShape[2], Black, <<30, 0, 0>>, q, q) :
            q \in {6, 60} }

ZeroArray(h, w) == [shape |-> <<h, w>>, v |-> [r \in 1..h |-> [c \in 1..w |-> 0]]]

NoSrv ==
    /\ uploads = <<>> /\ results = <<>> /\ issued = 0 /\ resp = None
    /\ log = {} /\ stage = None /\ reqs = <<>> /\ now = 0

InitImage ==
    /\ pil \in Images
    /\ bg_color = None /\ mask = None /\ out_img = None /\ step = "loaded"
    /\ NoSrv

\* mask = fallback_mask(pil)
FallbackMask ==
    /\ step = "loaded"
    /\ bg_color' = BgColor(Convert(pil, "RGB"))
    /\ mask' = FallbackArray(pil)
    /\ step' = "masked"
    /\ UNCHANGED <<pil, out_img, srvVars, concVars>>

\* apply_mask_and_save(pil, mask, out_path) with the fallback mask
ApplyMask ==
    /\ step = "masked"
    /\ out_img' = apply_mask_and_save(pil, mask)
    /\ step' = "saved"
    /\ UNCHANGED <<pil, bg_color, mask, srvVars, concVars>>

\* apply_mask_and_save with a mask that makes every pixel transparent
ApplyZeroMask ==
    /\ step = "masked"
    /\ mask' = ZeroArray(pil.h, pil.w)
    /\ out_img' = apply_mask_and_save(pil, mask')
    /\ step' = "saved0"
    /\ UNCHANGED <<pil, bg_color, srvVars, concVars>>

NextImage == FallbackMask \/ ApplyMask \/ ApplyZeroMask

SpecImage == InitImage /\ [][NextImage]_vars

(***************************************************************************)
(* File names.  A name is a sequence of one-character strings.             *)
(***************************************************************************)

ALLOWED_EXT ==
    { <<"p", "n", "g">>, <<"j", "p", "g">>, <<"j", "p", "e", "g">>,
      <<"w", "e", "b", "p">> }

NonAscii == {"U+65E5"}          \* a character outside ASCII, kept as one symbol
Whitespace == {" "}
PathSeps == {"/"}               \* os.sep; os.path.altsep is None on POSIX

\* str.lower(), one character
LowerChar(ch) ==
    CASE ch = "P" -> "p" [] ch = "N" -> "n" [] ch = "G" -> "g" [] ch = "J" -> "j"
      [] ch = "E" -> "e" [] ch = "W" -> "w" [] ch = "B" -> "b" [] ch = "A" -> "a"
      [] OTHER -> ch

Lower(t) == [i \in 1..Len(t) |-> LowerChar(t[i])]

Contains(t, ch) == \E i \in 1..Len(t) : t[i] = ch

LastIndex(t, ch) == CHOOSE i \in 1..Len(t) : t[i] = ch /\ \A j \in (i + 1)..Len(t) : t[j] # ch

\* t.rsplit('.', 1): one part when t has no '.', else the text before and
\* after its last '.'
RSplitDot(t) ==
    IF ~Contains(t, ".") THEN <<t>>
    ELSE <<SubSeq(t, 1, LastIndex(t, ".") - 1), SubSeq(t, LastIndex(t, ".") + 1, Len(t))>>

\* (mutant) the extension test without the test for a "."
allowed_file_any_suffix(name) ==
    Lower(RSplitDot(name)[Len(RSplitDot(name))]) \in ALLOWED_EXT

\* allowed_file(filename)
allowed_file(name) ==
    Contains(name, ".") /\ Lower(RSplitDot(name)[2]) \in ALLOWED_EXT

\* the characters of t that are not in the set drop, in order
RECURSIVE Without(_, _)
Without(t, drop) ==
    IF t = <<>> THEN <<>>
    ELSE (IF Head(t) \in drop THEN <<>> ELSE <<Head(t)>>) \o Without(Tail(t), drop)

\* "_".join(t.split()): leading and trailing whitespace dropped, every inner
\* run of whitespace replaced by one "_"
RECURSIVE JoinSplit(_, _, _)
JoinSplit(t, started, pending) ==
    IF t = <<>> THEN <<>>
    ELSE IF Head(t) \in Whitespace THEN JoinSplit(Tail(t), started, started)
    ELSE (IF pending THEN <<"_">> ELSE <<>>) \o <<Head(t)>>
         \o JoinSplit(Tail(t), TRUE, FALSE)

\* t.strip("._")
RECURSIVE LStrip(_)
LStrip(t) == IF t # <<>> /\ Head(t) \in {".", "_"} THEN LStrip(Tail(t)) ELSE t

RECURSIVE RStrip(_)
RStrip(t) ==
    IF t # <<>> /\ t[Len(t)] \in {".", "_"} THEN RStrip(SubSeq(t, 1, Len(t) - 1)) ELSE t

\* the ASCII characters _filename_ascii_strip_re = [^A-Za-z0-9_.-] removes
Unsafe == {"!", " ", "/"}

\* werkzeug.utils.secure_filename: non-ASCII characters dropped, path
\* separators turned into spaces, whitespace runs joined by "_", every
\* character outside [A-Za-z0-9_.-] removed, then leading and trailing
\* "." and "_" stripped.
secure_filename(name) ==
    LET ascii == Without(name, NonAscii)
        nosep == [i \in 1..Len(ascii) |-> IF ascii[i] \in PathSeps THEN " " ELSE ascii[i]]
        joined == JoinSplit(nosep, FALSE, FALSE)
    IN  RStrip(LStrip(Without(joined, Unsafe)))

\* save_upload, lines 33-34: ext = secure_filename(name).rsplit('.', 1)[1].lower()
UploadExt(name) ==
    LET parts == RSplitDot(secure_filename(name))
    IN  IF Len(parts) < 2 THEN Raise("IndexError: list index out of range")
        ELSE Return(Lower(parts[2]))

\* uuid4(): a value never drawn before, given the number drawn so far
\* (uuid4 is taken never to repeat)
uuid4(drawn) == drawn + 1

\* save_upload(file_storage) with uuid u drawn: the name and file stored, or
\* the exception raised before anything is written
save_upload(file, u, clock) ==
    LET ext == UploadExt(file.filename)
    IN  IF ~ext.ok THEN ext
        ELSE Return([uid |-> <<u, ext.value>>,
                     file |-> [content |-> file.content, mtime |-> clock]])

\* a directory with file f stored under name n
WithFile(dir, n, f) == [x \in DOMAIN dir \cup {n} |-> IF x = n THEN f ELSE dir[x]]

(***************************************************************************)
(* The model hook: the files of models/ and what their objects do.         *)
(***************************************************************************)

\* models/: file name -> what unpickling it gives.  segmenter.pkl is the
\* DummySegmenter of scripts/create_dummy_pickles.py; the other files stand
\* for the objects a pickle can hold.
ModelDir ==
    [ n \in {"segmenter.pkl", "corrupt.pkl", "nopredict.pkl", "raises.pkl",
             "text.pkl", "channels.pkl", "ints.pkl", "taller.pkl",
             "transposed.pkl", "scalar.pkl", "flat.pkl", "column.pkl",
             "chfirst.pkl", "batch.pkl"} |->
        CASE n = "segmenter.pkl" -> "DummySegmenter"
          [] n = "corrupt.pkl" -> "unpicklable"
          [] n = "nopredict.pkl" -> "no_predict"
          [] OTHER -> n ]

\* load_pickle_model(name)
load_pickle_model(name) ==
    IF name \notin DOMAIN ModelDir THEN Raise("FileNotFoundError: Model file not found")
    ELSE IF ModelDir[name] = "unpicklable" THEN Raise("RuntimeError: Failed to load pickle")
    ELSE Return(ModelDir[name])

\* the sum of R + G + B over all pixels of arr
RECURSIVE GraySum(_, _, _)
GraySum(arr, r, c) ==
    IF r > arr.h THEN 0
    ELSE IF c > arr.w THEN GraySum(arr, r + 1, 1)
    ELSE arr.px[r][c][1] + arr.px[r][c][2] + arr.px[r][c][3] + GraySum(arr, r, c + 1)

\* DummySegmenter.predict: gray = mean over channels;
\* mask = (gray > gray.mean() * 0.9) * 255, with the comparison multiplied out
DummyPredict(arr) ==
    [type |-> "ndarray", shape |-> <<arr.h, arr.w>>,
     v |-> [r \in 1..arr.h |-> [c \in 1..arr.w |->
        IF 10 * arr.h * arr.w * (arr.px[r][c][1] + arr.px[r][c][2] + arr.px[r][c][3])
              > 9 * GraySum(arr, 1, 1)
        THEN 255 ELSE 0]]]

\* model.predict(arr) for each object of ModelDir that has a predict
Predict(model, arr) ==
    LET h == arr.h
        w == arr.w
        nd(shape, v) == Return([type |-> "ndarray", shape |-> shape, v |-> v])
    IN  CASE model = "DummySegmenter" -> Return(DummyPredict(arr))
          [] model = "raises.pkl" -> Raise("ValueError: predict failed")
          [] model = "text.pkl" -> Return([type |-> "str"])
          [] model = "channels.pkl" ->
                nd(<<h, w, 2>>, [r \in 1..h |-> [c \in 1..w |-> <<255, 0>>]])
          [] model = "ints.pkl" ->
                nd(<<h, w>>, [r \in 1..h |-> [c \in 1..w |-> 256 + r]])
          [] model = "taller.pkl" ->
                nd(<<h + 1, w>>, [r \in 1..(h + 1) |-> [c \in 1..w |-> 255]])
          [] model = "transposed.pkl" ->
                nd(<<w, h>>, [r \in 1..w |-> [c \in 1..h |-> 255]])
          [] model = "scalar.pkl" -> nd(<<>>, 255)
          [] model = "flat.pkl" -> nd(<<h * w>>, [i \in 1..(h * w) |-> 255])
          [] model = "column.pkl" -> nd(<<h>>, [i \in 1..h |-> 255])
          [] model = "chfirst.pkl" ->
                nd(<<2, h, w>>, [k \in 1..2 |-> [r \in 1..h |-> [c \in 1..w |-> 255]]])
          [] model = "batch.pkl" ->
                nd(<<1, h, w, 1>>, [b \in 1..1 |-> [r \in 1..h |-> [c \in 1..w |-> <<255>>]]])

\* mask = np.asarray(pred).astype('uint8'); if mask.ndim == 3: mask = mask[..., 0]
AsMask(pred) ==
    IF pred.type # "ndarray" THEN Raise("ValueError: invalid literal for int()")
    ELSE IF Len(pred.shape) = 3
    THEN Return([shape |-> SubSeq(pred.shape, 1, 2),
                 v |-> [i \in 1..pred.shape[1] |-> [j \in 1..pred.shape[2] |->
                            AsUint8(pred.v[i][j][1])]]])
    ELSE IF Len(pred.shape) = 2
    THEN Return([shape |-> pred.shape,
                 v |-> [i \in 1..pred.shape[1] |-> [j \in 1..pred.shape[2] |->
                            AsUint8(pred.v[i][j])]]])
    ELSE Return([shape |-> pred.shape, v |-> pred.v])

\* (mutant) the model branch without its else: an object with no predict
\* leaves mask = None, and nothing is raised
ModelMaskWithoutElse(model_name, im) ==
    LET model == load_pickle_model(model_name)
    IN  IF ~model.ok THEN model
        ELSE IF model.value = "no_predict" THEN Return([shape |-> <<>>, v |-> None])
        ELSE LET pred == Predict(model.value, Convert(im, "RGB"))
             IN  IF ~pred.ok THEN pred ELSE AsMask(pred.value)

\* process_local, the body of its try: the model's mask, or what is raised
ModelMask(model_name, im) ==
    LET model == load_pickle_model(model_name)
    IN  IF ~model.ok THEN model
        ELSE IF model.value = "no_predict"
        THEN Raise("RuntimeError: Loaded object has no predict()")
        ELSE LET pred == Predict(model.value, Convert(im, "RGB"))
             IN  IF ~pred.ok THEN pred ELSE AsMask(pred.value)

\* process_local, try / except Exception: the mask handed to compositing
LocalMask(model_name, im) ==
    LET m == ModelMask(model_name, im)
    IN  IF m.ok THEN m.value ELSE FallbackArray(im)

(***************************************************************************)
(* call_provider and the two handlers, each as one step.                   *)
(*                                                                         *)
(* A file's content is [kind |-> "image", image |-> ...] or                *)
(* [kind |-> "garbage"].  A request is [image, filename, content, model,   *)
(* provider]: image says whether the form has an 'image' part.             *)
(***************************************************************************)

\* (mutant) a file that is no image read as one black pixel
DecodeLenient(content) ==
    IF content.kind = "image" THEN Return(content.image)
    ELSE Return([mode |-> "RGB", h |-> 1, w |-> 1,
                 px |-> [r \in 1..1 |-> [c \in 1..1 |-> <<0, 0, 0>>]]])

\* Image.open(...) followed by a load or convert
Decode(content) ==
    IF content.kind = "image" THEN Return(content.image)
    ELSE Raise("UnidentifiedImageError: cannot identify image file")

\* Image.alpha_composite(img, txt): the input as RGBA with a line of text
\* drawn over it (the glyphs are kept as the text itself)
Overlay(im, text) == [base |-> Convert(im, "RGBA"), overlay |-> text]

provider_map ==
    [ n \in {"remove.bg", "clipdrop", "photoroom"} |->
        CASE n = "remove.bg" -> "REMOVE_BG_API_KEY"
          [] n = "clipdrop" -> "CLIPDROP_API_KEY"
          [] n = "photoroom" -> "PHOTOROOM_API_KEY" ]

\* api_key = os.environ.get(env_var) if env_var else None
ApiKey(provider_name, environ) ==
    IF provider_name \notin DOMAIN provider_map THEN None
    ELSE IF provider_map[provider_name] \notin DOMAIN environ THEN None
    ELSE environ[provider_map[provider_name]]

PostTimeout == 15

\* What the remote end does with a POST
RemoteBehaviours ==
    { [kind |-> "reply", status |-> 200, content |-> "cutout"],
      [kind |-> "reply", status |-> 200, content |-> ""],
      [kind |-> "reply", status |-> 500, content |-> "oops"],
      [kind |-> "refused"],
      [kind |-> "silent"] }

\* (mutant) requests.post without a timeout: a silent server is waited for
\* without end
RequestsPostNoTimeout(remote) ==
    CASE remote.kind = "reply" -> Return(remote)
      [] remote.kind = "refused" -> Raise("ConnectionError")
      [] remote.kind = "silent" -> [ok |-> FALSE, error |-> "hang", waited |-> None]

\* requests.post(url, ..., timeout=15): the reply, or the exception raised;
\* a server that stays silent raises Timeout once the timeout has passed
RequestsPost(remote) ==
    CASE remote.kind = "reply" -> Return(remote)
      [] remote.kind = "refused" -> Raise("ConnectionError")
      [] remote.kind = "silent" ->
            [ok |-> FALSE, error |-> "Timeout", waited |-> PostTimeout]

\* call_provider(provider_name, image_bytes): [ok, value | error, posted];
\* posted says whether the remote call was made
call_provider(provider_name, image_bytes, environ, remote) ==
    LET api_key == ApiKey(provider_name, environ)
        img == Decode(image_bytes)
    IN  IF api_key = None \/ api_key = ""
        THEN IF ~img.ok THEN [ok |-> FALSE, error |-> img.error, posted |-> FALSE]
             ELSE [ok |-> TRUE, posted |-> FALSE,
                   value |-> [kind |-> "image", image |-> Overlay(img.value, "API KEY MISSING")]]
        ELSE LET post == RequestsPost(remote)
             IN  IF ~post.ok /\ post.error = "hang"
                 THEN [ok |-> FALSE, error |-> "hang", posted |-> TRUE]
                 ELSE IF post.ok /\ post.value.status = 200 /\ post.value.content # ""
                 THEN [ok |-> TRUE, posted |-> TRUE,
                       value |-> [kind |-> "bytes", data |-> post.value.content]]
                 ELSE IF ~img.ok
                 THEN [ok |-> FALSE, error |-> img.error, posted |-> TRUE]
                 ELSE [ok |-> TRUE, posted |-> TRUE,
                       value |-> [kind |-> "image", image |-> Overlay(img.value, "API ERROR")]]

\* What a handler leaves: where it returned, the response, the two directories, the number of
\* uuids drawn, its side effects, and (process_local) its locals.
Outcome(at, status, body, up, res, drawn, effects, locals) ==
    [stage |-> at, status |-> status, body |-> body, uploads |-> up, results |-> res,
     issued |-> drawn, log |-> effects, locals |-> locals]

NoLocals == [pil |-> None, mask |-> None, saved |-> None]

\* the request checks both handlers start with
Rejection(req) ==
    IF ~req.image THEN "No image uploaded"
    ELSE IF req.filename = <<>> \/ ~allowed_file(req.filename) THEN "Invalid file"
    ELSE None

\* process_api()
process_api(req, up, res, drawn, clock, environ, remote) ==
    IF Rejection(req) # None
    THEN Outcome("rejected", 400, [error |-> Rejection(req)], up, res, drawn, {}, NoLocals)
    ELSE
    LET u1 == uuid4(drawn)
        saved == save_upload(req, u1, clock)
    IN  IF ~saved.ok
        THEN Outcome("unnamed", 500, [exception |-> saved.error], up, res, drawn, {},
                     NoLocals)
        ELSE
        LET up1 == WithFile(up, saved.value.uid, saved.value.file)
            data == up1[saved.value.uid].content
            out == call_provider(req.provider, data, environ, remote)
            effects == IF out.posted THEN {<<"post", req.provider>>} ELSE {}
            out_uid == <<uuid4(drawn + 1), <<"p", "n", "g">>>>
        IN  IF ~out.ok /\ out.error = "hang"
            THEN Outcome("provided", 0, [hang |-> TRUE], up1, res, drawn + 1, effects,
                         [NoLocals EXCEPT !.saved = out])
            ELSE IF ~out.ok
            THEN Outcome("provided", 500, [error |-> out.error], up1, res, drawn + 1, effects,
                         [NoLocals EXCEPT !.saved = out])
            ELSE Outcome("provided", 200, [before |-> saved.value.uid, after |-> out_uid],
                         up1,
                         WithFile(res, out_uid, [content |-> out.value, mtime |-> clock]),
                         drawn + 2, effects, [NoLocals EXCEPT !.saved = out])

\* process_local()
process_local(req, up, res, drawn, clock) ==
    IF Rejection(req) # None
    THEN Outcome("rejected", 400, [error |-> Rejection(req)], up, res, drawn, {}, NoLocals)
    ELSE
    LET u1 == uuid4(drawn)
        saved == save_upload(req, u1, clock)
    IN  IF ~saved.ok
        THEN Outcome("unnamed", 500, [exception |-> saved.error], up, res, drawn, {},
                     NoLocals)
        ELSE
        LET up1 == WithFile(up, saved.value.uid, saved.value.file)
            opened == Decode(up1[saved.value.uid].content)
        IN  IF ~opened.ok
            THEN Outcome("undecoded", 500, [exception |-> opened.error], up1, res, drawn + 1, {},
                         NoLocals)
            ELSE
            LET im == Convert(opened.value, "RGBA")
                m == LocalMask(req.model, im)
                effects == {<<"load", req.model>>}
                out_uid == <<uuid4(drawn + 1), <<"p", "n", "g">>>>
                png == apply_mask_and_save(im, m)
            IN  IF ~png.ok
                THEN Outcome("composited", 500, [error |-> png.error], up1, res, drawn + 2, effects,
                             [pil |-> im, mask |-> m, saved |-> png])
                ELSE Outcome("composited", 200,
                             [before |-> saved.value.uid, after |-> out_uid], up1,
                             WithFile(res, out_uid,
                                      [content |-> [kind |-> "image", image |-> png.value.image],
                                       mtime |-> clock]),
                             drawn + 2, effects,
                             [pil |-> im, mask |-> m, saved |-> png])

(***************************************************************************)
(* One request against a server that has served one before.                *)
(***************************************************************************)

MaxStem == 3

\* the sequences over S of length at most n
RECURSIVE SeqsUpTo(_, _)
SeqsUpTo(S, n) ==
    IF n = 0 THEN {<<>>}
    ELSE LET shorter == SeqsUpTo(S, n - 1)
         IN  shorter \cup { Append(t, ch) : t \in shorter, ch \in S }

StemChars == {"a", ".", "_", "/", "!", "U+65E5"}

Suffixes ==
    { <<>>, <<".", "p", "n", "g">>, <<".", "P", "N", "G">>, <<".", "j", "p", "g">>,
      <<".", "J", "p", "e", "g">>, <<".", "w", "e", "b", "p">>,
      <<".", "g", "i", "f">>, <<"p", "n", "g">> }

\* the file names submitted: a stem followed by a suffix
Filenames == { stem \o suf : stem \in SeqsUpTo(StemChars, MaxStem), suf \in Suffixes }

PlainName == <<"a", ".", "p", "n", "g">>

\* the uploads: three small images and a file that is no image
Photo == MkImage("RGB", 2, 3, White, Black, 1, 2)
Column == MkImage("RGBA", 3, 1, Black, White, 2, 1)
Square == MkImage("RGB", 2, 2, <<36, 48, 0>>, Black, 2, 2)

Contents ==
    { [kind |-> "image", image |-> Photo], [kind |-> "image", image |-> Column],
      [kind |-> "image", image |-> Square], [kind |-> "garbage"] }

ModelNames == DOMAIN ModelDir \cup {"missing.pkl"}

Providers == DOMAIN provider_map \cup {"other"}

\* os.environ, the API keys in it
Environs ==
    { <<>>, [REMOVE_BG_API_KEY |-> ""], [REMOVE_BG_API_KEY |-> "k1"],
      [REMOVE_BG_API_KEY |-> "k1", CLIPDROP_API_KEY |-> "k2", PHOTOROOM_API_KEY |-> "k3"] }

Request(image, name, content, model, provider) ==
    [image |-> image, filename |-> name, content |-> content, model |-> model,
     provider |-> provider]

\* request.form.get('model', 'segmenter.pkl'), request.form.get('provider', 'remove.bg')
DefaultModel == "segmenter.pkl"
DefaultProvider == "remove.bg"

LocalRequests ==
    { Request(FALSE, <<>>, [kind |-> "garbage"], DefaultModel, DefaultProvider) }
    \cup { Request(TRUE, n, [kind |-> "image", image |-> Photo], DefaultModel,
                   DefaultProvider) : n \in Filenames }
    \cup { Request(TRUE, PlainName, c, m, DefaultProvider) :
            c \in Contents, m \in ModelNames }

\* a process_api request with the environment and the remote end it meets
ApiCalls ==
    { [request |-> Request(FALSE, <<>>, [kind |-> "garbage"], DefaultModel,
                           DefaultProvider),
       environ |-> <<>>, remote |-> [kind |-> "refused"]] }
    \cup { [request |-> Request(TRUE, n, [kind |-> "image", image |-> Photo],
                                DefaultModel, DefaultProvider),
            environ |-> [REMOVE_BG_API_KEY |-> "k1"],
            remote |-> [kind |-> "refused"]] : n \in Filenames }
    \cup { [request |-> Request(TRUE, PlainName, c, DefaultModel, p),
            environ |-> e, remote |-> rm] :
            c \in Contents, p \in Providers, e \in Environs, rm \in RemoteBehaviours }

\* the directories as an earlier request left them
EarlierUpload == <<1, <<"j", "p", "g">>>>
EarlierResult == <<2, <<"p", "n", "g">>>>

InitReq ==
    /\ uploads = WithFile(<<>>, EarlierUpload,
                          [content |-> [kind |-> "image", image |-> Square], mtime |-> 0])
    /\ results = WithFile(<<>>, EarlierResult,
                          [content |-> [kind |-> "image", image |-> Square], mtime |-> 0])
    /\ issued = 2
    /\ resp = None /\ log = {} /\ reqs = <<>> /\ now = 1
    /\ pil = None /\ bg_color = None /\ mask = None /\ out_img = None
    /\ step = "idle" /\ stage = None

Settle(o) ==
    /\ resp' = [status |-> o.status, body |-> o.body]
    /\ uploads' = o.uploads
    /\ results' = o.results
    /\ issued' = o.issued
    /\ log' = o.log
    /\ pil' = o.locals.pil
    /\ mask' = o.locals.mask
    /\ out_img' = o.locals.saved
    /\ stage' = o.stage

\* POST /process/local
ProcessLocal ==
    /\ step = "idle"
    /\ \E req \in LocalRequests :
        /\ reqs' = [request |-> req]
        /\ Settle(process_local(req, uploads, results, issued, now))
    /\ step' = "local"
    /\ UNCHANGED <<bg_color, now>>

\* POST /process/api
ProcessApi ==
    /\ step = "idle"
    /\ \E call \in ApiCalls :
        /\ reqs' = call
        /\ Settle(process_api(call.request, uploads, results, issued, now,
                              call.environ, call.remote))
    /\ step' = "api"
    /\ UNCHANGED <<bg_color, now>>

NextReq == ProcessLocal \/ ProcessApi

SpecReq == InitReq /\ [][NextReq]_vars

(***************************************************************************)
(* Requests served side by side.  Each handler is cut at its accesses to   *)
(* the two directories: the upload written, the upload read back, the      *)
(* result written, the response.  reqs[0] is the index handler and its     *)
(* cleanup, reqs[1..NumReq] are process_local and process_api requests.    *)
(* The clock moves in steps of TickHours; a request that has started       *)
(* answers before it is Hours old (the remote call is cut off after        *)
(* PostTimeout seconds, the rest is local computation).                    *)
(***************************************************************************)

NumReq == 2

MaxTicks == 1

\* cleanup_old_files(hours=24)
Hours == 24

TickHours == Hours \div 2

\* (mutant) timedelta(minutes=hours): the age limit taken in minutes
CutoffInMinutes(clock) == clock - (Hours \div 60)

\* cutoff = datetime.utcnow() - timedelta(hours=hours)
Cutoff(clock) == clock - Hours

\* a folder after the loop of cleanup_old_files: files with mtime < cutoff unlinked
Swept(dir, cutoff) ==
    [n \in {x \in DOMAIN dir : ~(dir[x].mtime < cutoff)} |-> dir[n]]

\* the requests that arrive
ConcCalls ==
    { [handler |-> "local",
       request |-> Request(TRUE, PlainName, [kind |-> "image", image |-> Photo],
                           "nopredict.pkl", DefaultProvider),
       environ |-> <<>>, remote |-> [kind |-> "refused"]],
      [handler |-> "api",
       request |-> Request(TRUE, <<"a", ".", "J", "p", "e", "g">>,
                           [kind |-> "image", image |-> Column], DefaultModel,
                           DefaultProvider),
       environ |-> [REMOVE_BG_API_KEY |-> "k1"], remote |-> [kind |-> "silent"]] }

Slots == 1..NumReq

NewSlot ==
    [pc |-> "new", call |-> None, age |-> 0, uid |-> None, data |-> None,
     out_uid |-> None, wrote |-> None, resp |-> None]

InitConc ==
    /\ reqs = [i \in 0..NumReq |->
                 IF i = 0 THEN [pc |-> "idle", cutoff |-> 0] ELSE NewSlot]
    /\ now = Hours + TickHours
    /\ uploads = WithFile(<<>>, EarlierUpload,
                          [content |-> [kind |-> "image", image |-> Square], mtime |-> 0])
    /\ results = WithFile(<<>>, EarlierResult,
                          [content |-> [kind |-> "image", image |-> Square], mtime |-> 0])
    /\ issued = 2
    /\ log = {}
    /\ resp = None /\ stage = None
    /\ pil = None /\ bg_color = None /\ mask = None /\ out_img = None
    /\ step = "serving"

Answer(i, status, body) ==
    [reqs EXCEPT ![i].pc = "done", ![i].age = 0,
                 ![i].resp = [status |-> status, body |-> body]]

\* a handler up to and including save_upload (lines 146-153, 172-179)
Receive(i) ==
    /\ reqs[i].pc = "new"
    /\ i > 1 => reqs[i - 1].pc # "new"     \* requests are numbered as they arrive
    /\ \E call \in ConcCalls :
        LET started == [reqs EXCEPT ![i].call = call]
            saved == save_upload(call.request, uuid4(issued), now)
        IN  IF Rejection(call.request) # None
            THEN /\ reqs' = [started EXCEPT ![i].pc = "done",
                                ![i].resp = [status |-> 400,
                                             body |-> [error |-> Rejection(call.request)]]]
                 /\ UNCHANGED <<uploads, issued, log>>
            ELSE IF ~saved.ok
            THEN /\ reqs' = [started EXCEPT ![i].pc = "done",
                                ![i].resp = [status |-> 500,
                                             body |-> [exception |-> saved.error]]]
                 /\ UNCHANGED <<uploads, issued, log>>
            ELSE /\ reqs' = [started EXCEPT ![i].pc = "saved", ![i].uid = saved.value.uid]
                 /\ uploads' = WithFile(uploads, saved.value.uid, saved.value.file)
                 /\ issued' = issued + 1
                 /\ log' = log \cup {<<"write", "uploads", saved.value.uid, i>>}
    /\ UNCHANGED <<results, now, resp, stage, imgVars>>

\* the upload read back: Image.open(path).convert('RGBA') in process_local,
\* open(path, 'rb').read() in process_api
Open(i) ==
    /\ reqs[i].pc = "saved"
    /\ IF reqs[i].uid \notin DOMAIN uploads
       THEN reqs' = Answer(i, 500, [exception |-> "FileNotFoundError"])
       ELSE LET data == uploads[reqs[i].uid].content
            IN  IF reqs[i].call.handler = "local" /\ ~Decode(data).ok
                THEN reqs' = Answer(i, 500, [exception |-> Decode(data).error])
                ELSE reqs' = [reqs EXCEPT ![i].pc = "opened", ![i].data = data]
    /\ UNCHANGED <<uploads, results, issued, log, now, resp, stage, imgVars>>

\* the result: mask and compositing (lines 183-201) or call_provider and
\* the write (lines 158-162)
Compose(i) ==
    /\ reqs[i].pc = "opened"
    /\ LET call == reqs[i].call
           out_uid == <<uuid4(issued), <<"p", "n", "g">>>>
           im == Convert(Decode(reqs[i].data).value, "RGBA")
           png == apply_mask_and_save(im, LocalMask(call.request.model, im))
           out == call_provider(call.request.provider, reqs[i].data, call.environ,
                                call.remote)
           written(content) ==
               /\ reqs' = [reqs EXCEPT ![i].pc = "written", ![i].out_uid = out_uid,
                              ![i].wrote = content]
               /\ results' = WithFile(results, out_uid,
                                      [content |-> content, mtime |-> now])
               /\ issued' = issued + 1
               /\ log' = log \cup {<<"write", "results", out_uid, i>>}
       IN  IF call.handler = "local"
           THEN IF png.ok
                THEN written([kind |-> "image", image |-> png.value.image])
                ELSE /\ reqs' = Answer(i, 500, [error |-> png.error])
                     /\ issued' = issued + 1
                     /\ UNCHANGED <<results, log>>
           ELSE IF out.ok
                THEN written(out.value)
                ELSE /\ reqs' = Answer(i, 500, [error |-> out.error])
                     /\ UNCHANGED <<results, issued, log>>
    /\ UNCHANGED <<uploads, now, resp, stage, imgVars>>

\* return jsonify({'before': ..., 'after': ...})
Respond(i) ==
    /\ reqs[i].pc = "written"
    /\ reqs' = Answer(i, 200, [before |-> reqs[i].uid, after |-> reqs[i].out_uid])
    /\ UNCHANGED <<uploads, results, issued, log, now, resp, stage, imgVars>>

\* index(): cleanup_old_files computes its cutoff
IndexStart ==
    /\ reqs[0].pc = "idle"
    /\ reqs' = [reqs EXCEPT ![0] = [pc |-> "sweeping", cutoff |-> Cutoff(now)]]
    /\ UNCHANGED <<uploads, results, issued, log, now, resp, stage, imgVars>>

\* the loops over UPLOAD_DIR and RESULT_DIR, then the page is rendered
Sweep ==
    /\ reqs[0].pc = "sweeping"
    /\ uploads' = Swept(uploads, reqs[0].cutoff)
    /\ results' = Swept(results, reqs[0].cutoff)
    /\ reqs' = [reqs EXCEPT ![0] = [pc |-> "idle", cutoff |-> 0]]
    /\ UNCHANGED <<issued, log, now, resp, stage, imgVars>>

InFlight(i) == reqs[i].pc \in {"saved", "opened", "written"}

\* the clock moves on; no request in flight gets Hours old (age: the hours
\* a request has been in flight)
Tick ==
    /\ now < Hours + TickHours + MaxTicks * TickHours
    /\ \A i \in Slots : InFlight(i) => reqs[i].age + TickHours < Hours
    /\ now' = now + TickHours
    /\ reqs' = [i \in DOMAIN reqs |->
                  IF i \in Slots /\ InFlight(i)
                  THEN [reqs[i] EXCEPT !.age = @ + TickHours] ELSE reqs[i]]
    /\ UNCHANGED <<uploads, results, issued, log, resp, stage, imgVars>>

NextConc ==
    \/ \E i \in Slots : Receive(i)
    \/ \E i \in Slots : Open(i)
    \/ \E i \in Slots : Compose(i)
    \/ \E i \in Slots : Respond(i)
    \/ IndexStart
    \/ Sweep
    \/ Tick

SpecConc == InitConc /\ [][NextConc]_vars

(***************************************************************************)
(* Properties of the pixel pipeline (under SpecImage)                      *)
(***************************************************************************)

Masked == step \in {"masked", "saved"}

\* 900 n^2 against the squared distance of pixel (r, c) to bg_color, times n^2
Dist2(r, c) ==
    LET p == pil.px[r][c]
        n == bg_color.n
    IN  (n * p[1] - bg_color.sum[1]) * (n * p[1] - bg_color.sum[1])
        + (n * p[2] - bg_color.sum[2]) * (n * p[2] - bg_color.sum[2])
        + (n * p[3] - bg_color.sum[3]) * (n * p[3] - bg_color.sum[3])

Limit2 == 900 * bg_color.n * bg_color.n

\* C2: the mask of fallback_mask has the image's height and width, holds
\* only 0 and 255, and is 255 exactly where the Euclidean RGB distance to
\* the estimated background colour is strictly above 30.
C2_MaskIsThreshold ==
    Masked =>
        /\ mask.shape = <<pil.h, pil.w>>
        /\ DOMAIN mask.v = 1..pil.h
        /\ \A r \in 1..pil.h :
            /\ DOMAIN mask.v[r] = 1..pil.w
            /\ \A c \in 1..pil.w :
                /\ mask.v[r][c] \in {0, 255}
                /\ (mask.v[r][c] = 255) <=> ~(Dist2(r, c) <= Limit2)

\* a pixel at distance exactly 30 from the background colour, masked 0
C2_Witness ==
    /\ step = "masked"
    /\ \E r \in 1..pil.h, c \in 1..pil.w :
         Dist2(r, c) = Limit2 /\ mask.v[r][c] = 0
    /\ bg_color.n > 0

\* The sum of channel k over rows rlo..rhi and columns clo..chi of pil
RECURSIVE RowSum(_, _, _, _)
RowSum(r, c, chi, k) ==
    IF c > chi THEN 0 ELSE pil.px[r][c][k] + RowSum(r, c + 1, chi, k)

RECURSIVE BlockSum(_, _, _, _, _)
BlockSum(r, rhi, clo, chi, k) ==
    IF r > rhi THEN 0 ELSE RowSum(r, clo, chi, k) + BlockSum(r + 1, rhi, clo, chi, k)

\* C3: bg_color is the per-channel mean over the four corner regions with
\* margin m = max(5, min(H, W) div 20), clamped to the image, a pixel
\* counting once for every region it lies in.
C3_BackgroundIsCornerMean ==
    step # "loaded" =>
        LET h == pil.h
            w == pil.w
            m == IF Min(h, w) \div 20 > 5 THEN Min(h, w) \div 20 ELSE 5
            mh == IF m <= h THEN m ELSE h
            mw == IF m <= w THEN m ELSE w
        IN  /\ bg_color.n = 4 * mh * mw
            /\ (h >= m /\ w >= m) => bg_color.n = 4 * m * m
            /\ HeadSlice(Margin(h, w), h) = 1..mh
            /\ TailSlice(Margin(h, w), h) = (h - mh + 1)..h
            /\ HeadSlice(Margin(h, w), w) = 1..mw
            /\ TailSlice(Margin(h, w), w) = (w - mw + 1)..w
            /\ \A k \in 1..3 :
                bg_color.sum[k] =
                    BlockSum(1, mh, 1, mw, k)
                    + BlockSum(1, mh, w - mw + 1, w, k)
                    + BlockSum(h - mh + 1, h, 1, mw, k)
                    + BlockSum(h - mh + 1, h, w - mw + 1, w, k)

\* regions clamped on one axis and overlapping on the other, with a pixel
\* that differs from the rest inside the overlap
C3_Witness ==
    /\ step = "masked"
    /\ pil.h < 5 /\ pil.w > 5 /\ pil.w < 10
    /\ \E k \in 1..3 : pil.px[1][pil.w - 4][k] # pil.px[1][1][k]

\* a margin above the floor of 5, with the differing pixel in row 6
C3_WitnessLargeMargin ==
    /\ step = "masked"
    /\ Margin(pil.h, pil.w) = 6
    /\ bg_color.n = 144
    /\ pil.px[6][6] # pil.px[1][1]

\* C4: the saved RGBA image has the input's size and, pixel by pixel, the
\* input's R, G and B, whatever the alpha written.
C4_RgbPreserved ==
    step \in {"saved", "saved0"} =>
        /\ out_img.ok
        /\ out_img.value.image.mode = "RGBA"
        /\ out_img.value.image.h = pil.h
        /\ out_img.value.image.w = pil.w
        /\ \A r \in 1..pil.h, c \in 1..pil.w :
             \A k \in 1..3 : out_img.value.image.px[r][c][k] = pil.px[r][c][k]

\* a fully transparent pixel that kept a colour other than black
C4_Witness ==
    /\ step \in {"saved", "saved0"}
    /\ \E r \in 1..pil.h, c \in 1..pil.w :
         /\ out_img.value.image.px[r][c][4] = 0
         /\ out_img.value.image.px[r][c][1] = 255

(***************************************************************************)
(* Properties of one request (under SpecReq)                               *)
(***************************************************************************)

TheRequest == reqs.request

InitUploads == DOMAIN uploads = {EarlierUpload}
InitResults == DOMAIN results = {EarlierResult}

\* the models whose loading or inference fails
FailingModels ==
    {"missing.pkl", "corrupt.pkl", "nopredict.pkl", "raises.pkl", "text.pkl"}

\* C1: in process_local a failure to load the model or to run it never
\* reaches the caller: the request succeeds with the mask of fallback_mask,
\* which has the uploaded image's height and width.
C1_ModelFailureFallsBack ==
    (step = "local" /\ stage = "composited" /\ TheRequest.model \in FailingModels) =>
        /\ resp.status = 200
        /\ DOMAIN resp.body = {"before", "after"}
        /\ mask = FallbackArray(pil)
        /\ mask.shape = <<TheRequest.content.image.h, TheRequest.content.image.w>>
        /\ out_img.ok
        /\ resp.body.after \in DOMAIN results

\* an object without predict, met by a request that still succeeds
C1_Witness ==
    /\ step = "local" /\ stage = "composited"
    /\ TheRequest.model = "nopredict.pkl"
    /\ resp.status = 200
    /\ \E r \in 1..pil.h, c \in 1..pil.w : mask.v[r][c] = 255

\* the height and width fromarray gives a mask array, if any
MaskSize(m) ==
    IF Len(m.shape) = 2 THEN <<m.shape[1], m.shape[2]>>
    ELSE IF Len(m.shape) = 1 THEN <<m.shape[1], 1>>
    ELSE <<>>

\* C5: a mask of another height or width than the image makes compositing
\* fail: process_local answers 500 with an 'error' field and writes no
\* result file.
C5_SizeMismatchIsAnError ==
    (step = "local" /\ stage = "composited" /\ MaskSize(mask) # <<pil.h, pil.w>>) =>
        /\ resp.status = 500
        /\ DOMAIN resp.body = {"error"}
        /\ ~out_img.ok
        /\ InitResults

\* a model whose mask has one row too many
C5_Witness ==
    /\ step = "local" /\ stage = "composited"
    /\ TheRequest.model = "taller.pkl"
    /\ mask.shape = <<pil.h + 1, pil.w>>
    /\ resp.status = 500

\* C6: an upload with an allowed extension that is no image makes
\* process_local fail with the decoding error; no result file is written
\* and no 'before'/'after' answer is given.
C6_UndecodableUploadFails ==
    (step = "local" /\ stage \notin {"rejected", "unnamed"}
        /\ TheRequest.content.kind = "garbage") =>
        /\ stage = "undecoded"
        /\ resp.status = 500
        /\ DOMAIN resp.body = {"exception"}
        /\ resp.body.exception = "UnidentifiedImageError: cannot identify image file"
        /\ InitResults
        /\ log = {}

C6_Witness ==
    /\ step = "local" /\ stage = "undecoded"
    /\ TheRequest.content.kind = "garbage"
    /\ TheRequest.filename = PlainName
    /\ Cardinality(DOMAIN uploads) = 2

\* whether the request names a provider whose API key is set
KeyConfigured(call) ==
    \/ call.request.provider = "remove.bg" /\ "REMOVE_BG_API_KEY" \in DOMAIN call.environ
        /\ call.environ["REMOVE_BG_API_KEY"] # ""
    \/ call.request.provider = "clipdrop" /\ "CLIPDROP_API_KEY" \in DOMAIN call.environ
        /\ call.environ["CLIPDROP_API_KEY"] # ""
    \/ call.request.provider = "photoroom" /\ "PHOTOROOM_API_KEY" \in DOMAIN call.environ
        /\ call.environ["PHOTOROOM_API_KEY"] # ""

RemoteFailed(remote) ==
    \/ remote.kind # "reply"
    \/ remote.status # 200
    \/ remote.content = ""

\* what call_provider gives back when it falls back to the local image
LocalFallback(content, text, posted) ==
    IF content.kind = "image"
    THEN [ok |-> TRUE, posted |-> posted,
          value |-> [kind |-> "image",
                     image |-> [base |-> Convert(content.image, "RGBA"), overlay |-> text]]]
    ELSE [ok |-> FALSE, posted |-> posted,
          error |-> "UnidentifiedImageError: cannot identify image file"]

\* C8: with a key configured and the remote call failing (time-out,
\* exception, status other than 200, empty body) call_provider neither
\* raises for that nor waits without end: it gives the input with the
\* 'API ERROR' overlay (an input that is no image raises its decoding
\* error, as it does on every path).  With no key it makes no remote call
\* and gives the 'API KEY MISSING' image.
C8_RemoteFailureIsRecovered ==
    (step = "api" /\ stage = "provided") =>
        /\ (KeyConfigured(reqs) /\ RemoteFailed(reqs.remote)) =>
                out_img = LocalFallback(reqs.request.content, "API ERROR", TRUE)
        /\ ~KeyConfigured(reqs) =>
                /\ out_img = LocalFallback(reqs.request.content, "API KEY MISSING", FALSE)
                /\ log = {}

\* a silent server, timed out and answered by the fallback image
C8_Witness ==
    /\ step = "api" /\ stage = "provided"
    /\ KeyConfigured(reqs)
    /\ reqs.remote.kind = "silent"
    /\ out_img.ok /\ out_img.value.image.overlay = "API ERROR"
    /\ resp.status = 200

\* the extension test as the claim words it
HasAllowedExtension(name) ==
    \E i \in 1..Len(name) :
        /\ name[i] = "."
        /\ \A j \in (i + 1)..Len(name) : name[j] # "."
        /\ Lower(SubSeq(name, i + 1, Len(name))) \in
              { <<"p", "n", "g">>, <<"j", "p", "g">>, <<"j", "p", "e", "g">>,
                <<"w", "e", "b", "p">> }

Invalid(req) == ~req.image \/ req.filename = <<>> \/ ~HasAllowedExtension(req.filename)

\* C9: a request without an 'image' part, with an empty file name or with a
\* name whose extension is not allowed is answered 400 by both handlers,
\* and nothing is saved, posted or loaded.
C9_InvalidRequestIsRejected ==
    (step \in {"local", "api"} /\ Invalid(TheRequest)) =>
        /\ resp.status = 400
        /\ DOMAIN resp.body = {"error"}
        /\ InitUploads /\ InitResults
        /\ issued = 2
        /\ log = {}

\* a name that ends in an allowed extension but has no "."
C9_Witness ==
    /\ step = "api"
    /\ TheRequest.filename = <<"a", "p", "n", "g">>
    /\ resp.status = 400

\* C10: every file name allowed_file accepts is stored by save_upload under
\* a fresh name with the lower-cased extension of the submitted name.
C10_AcceptedNameIsStored ==
    (step \in {"local", "api"} /\ ~Invalid(TheRequest)) =>
        /\ stage # "unnamed"
        /\ \E n \in DOMAIN uploads \ {EarlierUpload} :
            /\ n[2] = Lower(RSplitDot(TheRequest.filename)[2])
            /\ n[2] \in ALLOWED_EXT
            /\ uploads[n].content = TheRequest.content

(***************************************************************************)
(* Properties of requests served side by side (under SpecConc)             *)
(***************************************************************************)

\* what each request gets when it is the only one served
AloneOutcome ==
    [call \in ConcCalls |->
        IF call.handler = "local"
        THEN process_local(call.request, <<>>, <<>>, 0, 0)
        ELSE process_api(call.request, <<>>, <<>>, 0, 0, call.environ, call.remote)]

Alone(i) == AloneOutcome[reqs[i].call]

\* C7: requests served side by side, with cleanup running among them, do
\* not disturb one another: no path is written by two requests, the files
\* a request has written are there until it answers, and its answer is the
\* one it gets when served alone.
C7_RequestsDoNotInterfere ==
    step = "serving" =>
        /\ \A e1 \in log, e2 \in log :
                (e1[2] = e2[2] /\ e1[3] = e2[3]) => e1[4] = e2[4]
        /\ \A e \in log : e[3] \notin {EarlierUpload, EarlierResult}
        /\ \A i \in Slots :
            /\ InFlight(i) =>
                /\ reqs[i].uid \in DOMAIN uploads
                /\ uploads[reqs[i].uid].content = reqs[i].call.request.content
            /\ reqs[i].pc = "written" =>
                /\ reqs[i].out_uid \in DOMAIN results
                /\ results[reqs[i].out_uid].content = reqs[i].wrote
            /\ reqs[i].pc = "done" =>
                /\ reqs[i].resp.status = Alone(i).status
                /\ DOMAIN reqs[i].resp.body = DOMAIN Alone(i).body
                /\ reqs[i].resp.status # 200 => reqs[i].resp.body = Alone(i).body
                /\ reqs[i].resp.status = 200 =>
                    /\ reqs[i].resp.body.before[2] = Alone(i).body.before[2]
                    /\ reqs[i].wrote = Alone(i).results[Alone(i).body.after].content

\* two requests in flight, one of them for half a day, after cleanup has
\* removed the old files and while it runs again
C7_Witness ==
    /\ step = "serving"
    /\ \E i \in Slots, j \in Slots :
        /\ i # j
        /\ reqs[i].pc = "saved" /\ reqs[i].age > 0
        /\ reqs[j].pc = "written"
    /\ reqs[0].pc = "sweeping"
    /\ EarlierUpload \notin DOMAIN uploads

====
